---- MODULE Spec2Model ----
(***************************************************************************)
(* ZenFlow: the node-graph editor of src/App.tsx as a state machine.       *)
(*                                                                         *)
(* The specifications share the variables:                                 *)
(*   Spec      the editor: nodes, edges, selection, scope, the connection  *)
(*             gesture and the asynchronous breakdown calls;               *)
(*   SpecFlow  the per-frame propagation engine with its fetch callbacks;  *)
(*   SpecEdge  the propagation engine on one source feeding one Api node,  *)
(*             with the per-frame history of the signal;                   *)
(*   SpecTree  deleteNode and the scope handlers on arbitrary node trees;  *)
(*   SpecPure  getDownstreamNodes on arbitrary graphs;                     *)
(*   SpecAlign the depth assignment of handleAutoAlign on arbitrary graphs;*)
(*   SpecSelect     the click handlers on arbitrary graphs and selections; *)
(*   SpecBreakdown  the breakdown calls with arbitrary dependency lists;   *)
(*   SpecConnect    the connection gesture on two nodes;                   *)
(*   SpecImport     handleImport on files of every shape;                  *)
(*   SpecLoad       saveData and the manual load with its payloads;        *)
(*   SpecService    the breakdown calls with the service's responses;      *)
(*   SpecWalk       the breadcrumb walk, one iteration a step;             *)
(*   SpecDelete     both deletes on arbitrary node trees;                  *)
(*   SpecReload     the frame loop and fetches across a page reload;       *)
(*   SpecRestore    the frame loop across autosave and manual load;        *)
(*   SpecDrop       the connection gesture inside and outside a task;      *)
(*   SpecSelection  every operation that writes the selection.             *)
(*                                                                         *)
(* Conventions.  A React state cell is a variable; a handler is an action  *)
(* and all the setState calls it makes are one step.  A handler suspended  *)
(* at an await is an entry of `calls` (breakdown) or `inflight` (fetch)    *)
(* holding what its closure captured.  uid() is a fresh-id counter.  An    *)
(* optional field of a JS object is a key that is absent from the record.  *)
(* The viewport, the settings and the localStorage item are state as well; *)
(* a parsed JSON value is a record tagged with its kind.                   *)
(* Numbers flowing along edges are in hundredths (0.5 is 50).  Labels,     *)
(* status and pixel positions are not part of the state; where the code    *)
(* orders nodes by position the order is an input.                         *)
(***************************************************************************)
EXTENDS Integers, Sequences, FiniteSets, TLC

\* ---------------------------------------------------------------- bounds
MaxId == 3          \* ids uid() hands out in the editor
MaxEdges == 2       \* length of the edge array in the editor
MaxCalls == 1       \* breakdown calls outstanding at once
MaxSubtasks == 2    \* subtasks in one breakdown result
MaxDeps == 1        \* dependencies in one breakdown result
MaxInflight == 2    \* fetches outstanding at once
MaxFrames == 6      \* frames of the specification that keeps the frame history
MaxFlowEdges == 2   \* edges of the graphs the propagation engine runs on
MaxGraphEdges == 3  \* edges of the graphs the traversal and layout functions run on
MaxTreeEdges == 2   \* edges of the node trees deleteNode runs on
MaxConnectEdges == 1     \* edges of the graphs the connection gesture starts on
MaxAlerts == 2          \* alerts shown, in the import specification
MaxLoads == 2           \* manual loads outstanding at once
MaxPath == 4            \* iterations of the breadcrumb walk that are followed
MaxBreakdownCalls == 2   \* breakdown calls outstanding at once, in the breakdown specification
MaxBreakdownDeps == 2    \* dependencies in one breakdown result, in the breakdown specification
MaxBreakdownId == 4      \* ids uid() hands out in the breakdown specification

\* numbers of the propagation engine, in hundredths
Epsilon == 1        \* 0.01
Threshold == 50     \* 0.5
One == 100          \* 1

NoId == 0           \* null / undefined id
NodeTypes == {"task", "oscillator", "display", "api", "timer"}
AddTypes == {"task"}     \* types the editor specification adds
PortTypes == {"source", "target"}

VARIABLES
    nodes,            \* id -> node record: the nodes array, in id order
    edges,            \* sequence of [source, target]
    selectedNodeIds,
    currentScopeId,
    connectionState,
    processingId,
    calls,            \* suspended breakdown handlers
    nextId,           \* next id uid() returns
    inflight,         \* fetches issued and not yet completed
    viewport,
    lang,
    cloudSettings,
    isSettingsOpen,
    alerts,           \* the messages alert() has shown, oldest first
    loads,            \* suspended handleManualLoad calls
    localStorage,     \* the item under STORAGE_KEY
    call,             \* the traversal or layout function applied last, with its arguments
    ret,              \* what it returned
    \* history, not program state
    track,            \* the handlers whose runs lastOp records (fixed by Init)
    lastOp,           \* the tracked handler that ran last, and its argument
    frameLog,         \* what the last frame did on each edge into an Api node
    returned,         \* which collection the last frame's updater returned: "same" or "new"
    heldHigh,         \* <<s, a>>: a frame started a fetch of a on s's signal and has seen s high ever since
    hist              \* one entry per frame, oldest first

vars == <<nodes, edges, selectedNodeIds, currentScopeId, connectionState,
          processingId, calls, nextId, inflight,
          viewport, lang, cloudSettings, isSettingsOpen, alerts, loads, localStorage,
          call, ret,
          track, lastOp, frameLog, returned, heldHigh, hist>>

\* ------------------------------------------------------------- JS helpers
\* { ...a, ...b }
Spread(a, b) == [k \in DOMAIN a \cup DOMAIN b |-> IF k \in DOMAIN b THEN b[k] ELSE a[k]]

Has(r, k) == k \in DOMAIN r

Range(s) == {s[i] : i \in DOMAIN s}

\* the ids of a set as an array in id order (the order of the nodes array)
RECURSIVE SetToSeq(_)
SetToSeq(S) ==
    IF S = {} THEN <<>>
    ELSE LET m == CHOOSE x \in S : \A y \in S : x <= y
         IN <<m>> \o SetToSeq(S \ {m})

\* every order of the elements of S
Orders(S) == {f \in [1..Cardinality(S) -> S] : \A i, j \in DOMAIN f : f[i] = f[j] => i = j}

Ids == DOMAIN nodes

\* ------------------------------------------------------------ node records
EmptyObject == [k \in {} |-> TRUE]     \* {}

DefaultConfig(type) ==
    IF type = "oscillator" THEN [frequency |-> 1]
    ELSE IF type = "timer" THEN [interval |-> 2]
    ELSE IF type = "api" THEN [url |-> "", method |-> "GET"]
    ELSE EmptyObject

\* the object addTask builds
NewNode(type, parent) ==
    IF type \in {"oscillator", "timer"}
    THEN [type |-> type, parentId |-> parent, config |-> DefaultConfig(type), value |-> 0]
    ELSE [type |-> type, parentId |-> parent, config |-> DefaultConfig(type)]

\* the task objects the breakdowns and the canvas drop build: no config key
NewTask(parent) == [type |-> "task", parentId |-> parent]

NoConnection == [isConnecting |-> FALSE, startNodeId |-> NoId, startType |-> "null", currentPos |-> FALSE]

\* ------------------------------------------------------------ derived views
visibleNodes == {n \in Ids : nodes[n].parentId = currentScopeId}

RECURSIVE breadcrumbsFrom(_, _)
breadcrumbsFrom(curr, path) ==
    IF curr = NoId THEN path
    ELSE IF curr \in Ids THEN breadcrumbsFrom(nodes[curr].parentId, <<curr>> \o path)
    ELSE path

breadcrumbs == breadcrumbsFrom(currentScopeId, <<>>)

selectedNodeData ==
    IF Cardinality(selectedNodeIds) # 1 THEN NoId
    ELSE LET s == CHOOSE x \in selectedNodeIds : TRUE
         IN IF s \in Ids THEN s ELSE NoId

\* -------------------------------------------------------------- traversal
\* the loop that adds the children of the queued ids and never enqueues them
RECURSIVE DownstreamLoopOneLevel(_, _, _)
DownstreamLoopOneLevel(queue, result, es) ==
    IF queue = <<>> THEN result
    ELSE DownstreamLoopOneLevel(Tail(queue),
             result \cup {es[i].target : i \in {j \in DOMAIN es : es[j].source = Head(queue)}}, es)

RECURSIVE DownstreamLoop(_, _, _)
DownstreamLoop(queue, result, es) ==
    IF queue = <<>> THEN result
    ELSE LET currentId == Head(queue)
             children == SelectSeq(es, LAMBDA e : e.source = currentId)
             \* the for loop over children: add and enqueue the unseen ones
             step[i \in 0..Len(children)] ==
                 IF i = 0 THEN [q |-> Tail(queue), r |-> result]
                 ELSE LET prev == step[i - 1]
                          childId == children[i].target
                      IN IF childId \in prev.r THEN prev
                         ELSE [q |-> Append(prev.q, childId), r |-> prev.r \cup {childId}]
             done == step[Len(children)]
         IN DownstreamLoop(done.q, done.r, es)

\* the result set starts from the seed alone, without the start ids
getDownstreamNodesInUnseeded(es, startIds, currentSet) == DownstreamLoop(startIds, currentSet, es)

getDownstreamNodesIn(es, startIds, currentSet) ==
    DownstreamLoop(startIds, currentSet \cup Range(startIds), es)

getDownstreamNodes(startIds, currentSet) == getDownstreamNodesIn(edges, startIds, currentSet)

\* ----------------------------------------------------------------- history
NoOp == [op |-> "none", id |-> NoId]

Op(name, id) == IF name \in track THEN [op |-> name, id |-> id] ELSE NoOp

NoHistory(tracked) ==
    /\ track = tracked
    /\ lastOp = NoOp
    /\ frameLog = <<>>
    /\ returned = "none"
    /\ heldHigh = {}
    /\ hist = <<>>

NoFlow == inflight = <<>>

\* localStorage.getItem(STORAGE_KEY) when nothing was saved
NoItem == [kind |-> "null"]

\* { x: 0, y: 0, scale: 1 }
DefaultViewport == [x |-> 0, y |-> 0, scale |-> One]

\* the provider and the slot of the cloud settings
defaultCloudSettings == [provider |-> "custom", slotId |-> "default"]

\* the page as it is first rendered, with nothing in localStorage
NoPage ==
    /\ viewport = DefaultViewport
    /\ lang = "ja"
    /\ cloudSettings = defaultCloudSettings
    /\ isSettingsOpen = FALSE
    /\ alerts = <<>>
    /\ loads = 0
    /\ localStorage = NoItem

NoCall == call = [fn |-> "none"] /\ ret = {}

\* the record of a handler's run, and what no handler of the graph touches
Recorded(name, id) ==
    /\ lastOp' = Op(name, id)
    /\ frameLog' = <<>>
    /\ returned' = "none"
    /\ hist' = IF "before" \in track
               THEN <<[ids |-> Ids, edges |-> edges, selected |-> selectedNodeIds, connection |-> connectionState]>>
               ELSE hist
    /\ UNCHANGED <<inflight, lang, cloudSettings, isSettingsOpen, alerts, loads, localStorage,
                   call, ret, track, heldHigh>>

\* what every handler of the editor that stays in its scope leaves alone
Editor(name, id) == Recorded(name, id) /\ UNCHANGED viewport

\* ----------------------------------------------------------- editor: Init
Init ==
    /\ nodes = EmptyObject
    /\ edges = <<>>
    /\ selectedNodeIds = {}
    /\ currentScopeId = NoId
    /\ connectionState = NoConnection
    /\ processingId = NoId
    /\ calls = <<>>
    /\ nextId = 1
    /\ NoFlow
    /\ NoPage
    /\ NoCall
    /\ NoHistory({})

\* nodes with the entries of `more` (id -> record) appended
AppendNodes(ns, more) == [k \in DOMAIN ns \cup DOMAIN more |-> IF k \in DOMAIN more THEN more[k] ELSE ns[k]]

\* prev.filter(n => !idsToDelete.includes(n.id))
FilterNodes(ns, idsToDelete) == [k \in DOMAIN ns \ idsToDelete |-> ns[k]]

\* the filter that looks at the source of an edge only
FilterEdgesBySource(es, idsToDelete) == SelectSeq(es, LAMBDA e : e.source \notin idsToDelete)

\* prev.filter(e => !idsToDelete.includes(e.source) && !idsToDelete.includes(e.target))
FilterEdges(es, idsToDelete) ==
    SelectSeq(es, LAMBDA e : e.source \notin idsToDelete /\ e.target \notin idsToDelete)

HasEdge(es, s, t) == \E i \in DOMAIN es : es[i].source = s /\ es[i].target = t

\* ----------------------------------------------------------- editor: nodes
\* the new node is put inside itself
addTaskInItself(label, type) ==
    /\ Editor("addTask", IF type = "task" /\ label = "" THEN NoId ELSE nextId)
    /\ IF type = "task" /\ label = ""
       THEN UNCHANGED <<nodes, nextId>>
       ELSE /\ nextId <= MaxId
            /\ nodes' = AppendNodes(nodes, nextId :> NewNode(type, nextId))
            /\ nextId' = nextId + 1
    /\ UNCHANGED <<edges, selectedNodeIds, currentScopeId, connectionState, processingId, calls>>

addTask(label, type) ==
    /\ Editor("addTask", IF type = "task" /\ label = "" THEN NoId ELSE nextId)
    /\ IF type = "task" /\ label = ""
       THEN UNCHANGED <<nodes, nextId>>
       ELSE /\ nextId <= MaxId
            /\ nodes' = AppendNodes(nodes, nextId :> NewNode(type, currentScopeId))
            /\ nextId' = nextId + 1
    /\ UNCHANGED <<edges, selectedNodeIds, currentScopeId, connectionState, processingId, calls>>

RECURSIVE getAllChildren(_)
getAllChildren(nodeId) ==
    LET children == {n \in Ids : nodes[n].parentId = nodeId}
        below[S \in SUBSET children] ==
            IF S = {} THEN {}
            ELSE LET c == CHOOSE x \in S : TRUE
                 IN getAllChildren(c) \cup below[S \ {c}]
    IN {nodeId} \cup below[children]

deleteNode(id) ==
    LET idsToDelete == getAllChildren(id)
    IN /\ nodes' = FilterNodes(nodes, idsToDelete)
       /\ edges' = FilterEdges(edges, idsToDelete)
       /\ selectedNodeIds' = selectedNodeIds \ idsToDelete
       /\ Editor("deleteNode", id)
       /\ UNCHANGED <<currentScopeId, connectionState, processingId, calls, nextId>>

deleteSelectedNodes ==
    LET idsToDelete == selectedNodeIds
    IN /\ nodes' = FilterNodes(nodes, idsToDelete)
       /\ edges' = FilterEdges(edges, idsToDelete)
       /\ selectedNodeIds' = {}
       /\ Editor("deleteSelectedNodes", NoId)
       /\ UNCHANGED <<currentScopeId, connectionState, processingId, calls, nextId>>

\* ------------------------------------------------------- editor: selection
handleNodeClick(id, key) ==
    /\ selectedNodeIds' =
         IF key = "alt" THEN getDownstreamNodes(<<id>>, selectedNodeIds)
         ELSE IF key = "ctrl"
              THEN IF id \in selectedNodeIds THEN selectedNodeIds \ {id}
                   ELSE selectedNodeIds \cup {id}
              ELSE IF id \in selectedNodeIds THEN selectedNodeIds ELSE {id}
    /\ Editor("handleNodeClick", id)
    /\ UNCHANGED <<nodes, edges, currentScopeId, connectionState, processingId, calls, nextId>>

selectDownstreamFromNode(id) ==
    /\ selectedNodeIds' = getDownstreamNodes(<<id>>, {})
    /\ Editor("selectDownstreamFromNode", id)
    /\ UNCHANGED <<nodes, edges, currentScopeId, connectionState, processingId, calls, nextId>>

\* the canvas's own mouse down: starts a pan and clears the selection
handleMouseDown ==
    /\ selectedNodeIds' = {}
    /\ Editor("handleMouseDown", NoId)
    /\ UNCHANGED <<nodes, edges, currentScopeId, connectionState, processingId, calls, nextId>>

\* the for loop of chainSelectedNodes over the sorted selected nodes
RECURSIVE ChainEdges(_, _, _)
ChainEdges(newEdges, selectedNodes, i) ==
    IF i >= Len(selectedNodes) THEN newEdges
    ELSE LET source == selectedNodes[i]
             target == selectedNodes[i + 1]
         IN ChainEdges(IF HasEdge(newEdges, source, target) THEN newEdges
                       ELSE Append(newEdges, [source |-> source, target |-> target]),
                       selectedNodes, i + 1)

\* selectedNodes: the selected nodes in the order the sort by position gives
chainSelectedNodes(selectedNodes) ==
    /\ Cardinality(selectedNodeIds) >= 2
    /\ Range(selectedNodes) = selectedNodeIds \cap Ids
    /\ edges' = ChainEdges(edges, selectedNodes, 1)
    /\ Len(edges') <= MaxEdges
    /\ Editor("chainSelectedNodes", NoId)
    /\ UNCHANGED <<nodes, selectedNodeIds, currentScopeId, connectionState, processingId, calls, nextId>>

\* ----------------------------------------------------------- editor: scope
handleEnterNode(id) ==
    /\ currentScopeId' = id
    /\ selectedNodeIds' = {}
    /\ viewport' = DefaultViewport
    /\ Recorded("handleEnterNode", id)
    /\ UNCHANGED <<nodes, edges, connectionState, processingId, calls, nextId>>

handleNavigateUp(targetId) ==
    /\ currentScopeId' = targetId
    /\ selectedNodeIds' = {}
    /\ viewport' = DefaultViewport
    /\ Recorded("handleNavigateUp", targetId)
    /\ UNCHANGED <<nodes, edges, connectionState, processingId, calls, nextId>>

\* ------------------------------------------------------ editor: connection
\* the pointer-up that adds the edge from the anchor to the port it ends on
handleConnectEndAsDragged(id, type) ==
    LET startId == connectionState.startNodeId
    IN /\ edges' =
            IF /\ connectionState.isConnecting
               /\ startId # NoId
               /\ startId # id
               /\ connectionState.startType # type
               /\ ~HasEdge(edges, startId, id)
            THEN Append(edges, [source |-> startId, target |-> id])
            ELSE edges
       /\ Len(edges') <= MaxEdges
       /\ connectionState' = NoConnection
       /\ Editor("handleConnectEnd", id)
       /\ UNCHANGED <<nodes, selectedNodeIds, currentScopeId, processingId, calls, nextId>>

handleConnectStart(id, type) ==
    /\ connectionState' = [isConnecting |-> TRUE, startNodeId |-> id, startType |-> type, currentPos |-> TRUE]
    /\ Editor("handleConnectStart", id)
    /\ UNCHANGED <<nodes, edges, selectedNodeIds, currentScopeId, processingId, calls, nextId>>

handleConnectEnd(id, type) ==
    LET startId == connectionState.startNodeId
        endId == id
        forward == connectionState.startType = "source" /\ type = "target"
        backward == connectionState.startType = "target" /\ type = "source"
        sourceId == IF forward THEN startId ELSE endId
        targetId == IF forward THEN endId ELSE startId
    IN /\ edges' =
            IF /\ connectionState.isConnecting
               /\ startId # NoId
               /\ startId # endId
               /\ forward \/ backward
               /\ ~HasEdge(edges, sourceId, targetId)
            THEN Append(edges, [source |-> sourceId, target |-> targetId])
            ELSE edges
       /\ Len(edges') <= MaxEdges
       /\ connectionState' = NoConnection
       /\ Editor("handleConnectEnd", id)
       /\ UNCHANGED <<nodes, selectedNodeIds, currentScopeId, processingId, calls, nextId>>

\* the drop creates its node at the root
handleMouseUpAtRoot ==
    /\ IF /\ connectionState.isConnecting
          /\ connectionState.startType = "source"
          /\ connectionState.startNodeId # NoId
          /\ connectionState.currentPos
       THEN LET newNodeId == nextId
            IN /\ nextId <= MaxId
               /\ Len(edges) < MaxEdges
               /\ nodes' = AppendNodes(nodes, newNodeId :> NewTask(NoId))
               /\ edges' = Append(edges, [source |-> connectionState.startNodeId, target |-> newNodeId])
               /\ selectedNodeIds' = {newNodeId}
               /\ nextId' = nextId + 1
       ELSE UNCHANGED <<nodes, edges, selectedNodeIds, nextId>>
    /\ connectionState' = IF connectionState.isConnecting THEN NoConnection ELSE connectionState
    /\ Editor("handleMouseUp", NoId)
    /\ UNCHANGED <<currentScopeId, processingId, calls>>

\* the window's mouse up: the drop of a connection on the canvas
handleMouseUp ==
    /\ IF /\ connectionState.isConnecting
          /\ connectionState.startType = "source"
          /\ connectionState.startNodeId # NoId
          /\ connectionState.currentPos
       THEN LET newNodeId == nextId
            IN /\ nextId <= MaxId
               /\ Len(edges) < MaxEdges
               /\ nodes' = AppendNodes(nodes, newNodeId :> NewTask(currentScopeId))
               /\ edges' = Append(edges, [source |-> connectionState.startNodeId, target |-> newNodeId])
               /\ selectedNodeIds' = {newNodeId}
               /\ nextId' = nextId + 1
       ELSE UNCHANGED <<nodes, edges, selectedNodeIds, nextId>>
    /\ connectionState' = IF connectionState.isConnecting THEN NoConnection ELSE connectionState
    /\ Editor("handleMouseUp", NoId)
    /\ UNCHANGED <<currentScopeId, processingId, calls>>

\* ------------------------------------------------------- editor: breakdown
\* what breakDownTask resolves to: the number of subtasks and the dependency list
DepLists ==
    {<<>>} \cup {<<[fromIndex |-> a, toIndex |-> b]>> : a \in 0..MaxSubtasks, b \in 0..MaxSubtasks}

BreakdownResults == [subtasks : 0..MaxSubtasks, dependencies : {d \in DepLists : Len(d) <= MaxDeps}]

RemoveAt(s, i) == SubSeq(s, 1, i - 1) \o SubSeq(s, i + 1, Len(s))

\* the part of either breakdown handler before its await
BreakdownStart(mode, id) ==
    /\ id \in Ids
    /\ processingId' = id
    /\ calls' = Append(calls, [mode |-> mode, node |-> [id |-> id, parentId |-> nodes[id].parentId]])
    /\ Editor(mode, id)
    /\ UNCHANGED <<nodes, edges, selectedNodeIds, currentScopeId, connectionState, nextId>>

handleVerticalBreakdown(id) == BreakdownStart("handleVerticalBreakdown", id)

handleHorizontalBreakdown(id) == BreakdownStart("handleHorizontalBreakdown", id)

\* ids of the new nodes: newNodes[i] is NewIds(k)[i + 1]
NewIds(k) == [i \in 1..k |-> nextId + i - 1]

\* the edges of a vertical breakdown: node -> each subtask, then the dependencies
VerticalEdges(node, k, deps) ==
    LET newIds == NewIds(k)
        fan == [i \in 1..k |-> [source |-> node.id, target |-> newIds[i]]]
        ok == SelectSeq(deps, LAMBDA dep : dep.fromIndex \in 0..(k - 1) /\ dep.toIndex \in 0..(k - 1))
    IN fan \o [i \in 1..Len(ok) |-> [source |-> newIds[ok[i].fromIndex + 1], target |-> newIds[ok[i].toIndex + 1]]]

\* the edges of a horizontal breakdown: node -> first, then a chain
HorizontalEdges(node, k) ==
    LET newIds == NewIds(k)
    IN [i \in 1..k |-> [source |-> IF i = 1 THEN node.id ELSE newIds[i - 1], target |-> newIds[i]]]

\* the part of handleVerticalBreakdown after its await, for call i
VerticalBreakdownDone(i, result) ==
    LET node == calls[i].node
        k == result.subtasks
        newIds == NewIds(k)
    IN /\ calls[i].mode = "handleVerticalBreakdown"
       /\ calls' = RemoveAt(calls, i)
       /\ processingId' = NoId
       /\ Editor("VerticalBreakdownDone", node.id)
       /\ IF k > 0
          THEN /\ nodes' = AppendNodes(nodes, [n \in Range(newIds) |-> NewTask(node.id)])
               /\ edges' = edges \o VerticalEdges(node, k, result.dependencies)
               /\ nextId' = nextId + k
               /\ currentScopeId' = node.id
          ELSE UNCHANGED <<nodes, edges, nextId, currentScopeId>>
       /\ UNCHANGED <<selectedNodeIds, connectionState>>

\* the part of handleHorizontalBreakdown after its await, for call i
HorizontalBreakdownDone(i, result) ==
    LET node == calls[i].node
        k == result.subtasks
        newIds == NewIds(k)
    IN /\ calls[i].mode = "handleHorizontalBreakdown"
       /\ calls' = RemoveAt(calls, i)
       /\ processingId' = NoId
       /\ Editor("HorizontalBreakdownDone", node.id)
       /\ IF k > 0
          THEN /\ nodes' = AppendNodes(nodes, [n \in Range(newIds) |-> NewTask(node.parentId)])
               /\ edges' = edges \o HorizontalEdges(node, k)
               /\ nextId' = nextId + k
          ELSE UNCHANGED <<nodes, edges, nextId>>
       /\ UNCHANGED <<selectedNodeIds, currentScopeId, connectionState>>

\* ------------------------------------------------------------ editor: Next
\* Each handler is offered where the page renders its control: a node's own
\* controls on the visible nodes, the detail panel on the single selected node,
\* the toolbar buttons while something is selected, the breadcrumb buttons.
Next ==
    \/ \E label \in {"", "x"}, type \in AddTypes : addTask(label, type)
    \/ \E id \in visibleNodes \cup ({selectedNodeData} \ {NoId}) : deleteNode(id)
    \/ selectedNodeIds # {} /\ deleteSelectedNodes
    \/ \E id \in visibleNodes, key \in {"none", "ctrl", "alt"} : handleNodeClick(id, key)
    \/ \E id \in {selectedNodeData} \ {NoId} : selectDownstreamFromNode(id)
    \/ handleMouseDown
    \/ \E order \in Orders(selectedNodeIds \cap Ids) : chainSelectedNodes(order)
    \/ \E id \in visibleNodes : handleEnterNode(id)
    \/ \E targetId \in {NoId} \cup Range(breadcrumbs) : handleNavigateUp(targetId)
    \/ \E id \in visibleNodes, type \in PortTypes : handleConnectStart(id, type)
    \/ \E id \in visibleNodes, type \in PortTypes : handleConnectEnd(id, type)
    \/ handleMouseUp
    \/ \E id \in visibleNodes :
         /\ nodes[id].type = "task" /\ processingId # id /\ Len(calls) < MaxCalls
         /\ handleVerticalBreakdown(id)
    \/ \E id \in visibleNodes :
         /\ nodes[id].type = "task" /\ processingId # id /\ Len(calls) < MaxCalls
         /\ handleHorizontalBreakdown(id)
    \/ \E i \in DOMAIN calls, result \in BreakdownResults :
         VerticalBreakdownDone(i, result) /\ nextId' <= MaxId + 1 /\ Len(edges') <= MaxEdges
    \/ \E i \in DOMAIN calls, result \in BreakdownResults :
         HorizontalBreakdownDone(i, result) /\ nextId' <= MaxId + 1 /\ Len(edges') <= MaxEdges

Spec == Init /\ [][Next]_vars

\* ------------------------------------------------------------- propagation
Cfg(n) == IF Has(n, "config") THEN n.config ELSE EmptyObject

\* config?.key for a boolean key
Flag(c, k) == Has(c, k) /\ c[k] = TRUE

\* config?.url, as a condition
UrlSet(c) == Has(c, "url") /\ c.url # ""

Abs(x) == IF x < 0 THEN -x ELSE x

\* the values a producer can take at some `now`: (sin(..) + 1) / 2, and the pulse
OscValues == {0, Threshold, Threshold + Epsilon, One}
TimerValues == {0, One}

\* per node, the value its formula yields at the frame's `now`
FrameInputs(ns) ==
    LET oscillators == {id \in DOMAIN ns : ns[id].type = "oscillator"}
        timers == {id \in DOMAIN ns : ns[id].type = "timer"}
    IN {[id \in DOMAIN ns |-> IF id \in oscillators THEN o[id] ELSE IF id \in timers THEN t[id] ELSE 0] :
           o \in [oscillators -> OscValues], t \in [timers -> TimerValues]}

\* an oscillator's value is written whenever it differs at all
ProducerMovesAtAll(node, val) ==
    IF node.type \in {"oscillator", "timer"}
    THEN ~Has(node, "value") \/ node.value # val
    ELSE FALSE

\* the conditions under which "Process Producers" writes a node's value
ProducerMoves(node, val) ==
    IF node.type = "oscillator"
    THEN Abs((IF Has(node, "value") THEN node.value ELSE 0) - val) > Epsilon
    ELSE IF node.type = "timer"
    THEN ~Has(node, "value") \/ node.value # val
    ELSE FALSE

\* "Process Producers"
Producers(ns, vals) ==
    [id \in DOMAIN ns |->
        IF ProducerMoves(ns[id], vals[id]) THEN Spread(ns[id], [value |-> vals[id]]) ELSE ns[id]]

\* a rising edge starts a fetch cycle even while one is in flight
TriggerMidFetch(signal, lastSignal, isFetching) == signal > Threshold /\ ~lastSignal

\* the rising edge that starts a fetch cycle
Trigger(signal, lastSignal, isFetching) == signal > Threshold /\ ~lastSignal /\ ~isFetching

\* one iteration of edges.forEach; st holds the node copies, the fetches started
\* in this frame, the log of what was done on the edges into Api nodes, and the
\* hasChanges flag
PropagateEdge(st, edge) ==
    LET ns == st.nodes
    IN IF ~(edge.source \in DOMAIN ns /\ edge.target \in DOMAIN ns) THEN st
       ELSE LET source == ns[edge.source]
                target == ns[edge.target]
            IN IF ~Has(source, "value") THEN st
               ELSE IF target.type = "display"
               THEN IF ~Has(target, "value") \/ target.value # source.value
                    THEN [st EXCEPT !.nodes = Spread(ns, edge.target :> Spread(target, [value |-> source.value])),
                                    !.hasChanges = TRUE]
                    ELSE st
               ELSE IF target.type = "api"
               THEN LET signal == source.value
                        config == Cfg(target)
                        lastSignal == Flag(config, "lastSignalWasHigh")
                        entry == [source |-> edge.source, target |-> edge.target, high |-> signal > Threshold]
                    IN IF Trigger(signal, lastSignal, Flag(config, "isFetching"))
                       THEN [nodes |-> Spread(ns, edge.target :>
                                        Spread(target, [config |-> Spread(config, [isFetching |-> TRUE, lastSignalWasHigh |-> TRUE])])),
                             started |-> Append(st.started,
                                        [id |-> edge.target,
                                         via |-> IF UrlSet(config) THEN "fetch" ELSE "timeout",
                                         config |-> EmptyObject]),
                             log |-> Append(st.log, Spread(entry, [fetch |-> TRUE])),
                             hasChanges |-> TRUE]
                       ELSE IF ~Has(config, "lastSignalWasHigh") \/ config.lastSignalWasHigh # (signal > Threshold)
                            THEN [st EXCEPT
                                    !.nodes = Spread(ns, edge.target :>
                                        Spread(target, [config |-> Spread(config, [lastSignalWasHigh |-> signal > Threshold])])),
                                    !.log = Append(st.log, Spread(entry, [fetch |-> FALSE])),
                                    !.hasChanges = TRUE]
                            ELSE [st EXCEPT !.log = Append(st.log, Spread(entry, [fetch |-> FALSE]))]
               ELSE st

RECURSIVE PropagateFrom(_, _, _)
PropagateFrom(st, es, i) ==
    IF i > Len(es) THEN st ELSE PropagateFrom(PropagateEdge(st, es[i]), es, i + 1)

\* the updater the frame loop hands to setNodes
Frame(ns, es, vals) ==
    PropagateFrom([nodes |-> Producers(ns, vals), started |-> <<>>, log |-> <<>>,
                   hasChanges |-> \E id \in DOMAIN ns : ProducerMoves(ns[id], vals[id])], es, 1)

\* heldHigh after a frame with this log
RECURSIVE HeldAfter(_, _, _)
HeldAfter(held, log, i) ==
    IF i > Len(log) THEN held
    ELSE LET e == log[i]
             pair == <<e.source, e.target>>
         IN HeldAfter(IF e.fetch THEN held \cup {pair}
                      ELSE IF ~e.high THEN held \ {pair} ELSE held, log, i + 1)

\* what every step of the propagation engine leaves alone, and the record of its run
Flow(name, id) ==
    /\ lastOp' = Op(name, id)
    /\ UNCHANGED <<edges, selectedNodeIds, currentScopeId, connectionState,
                   processingId, calls, nextId, viewport, lang, cloudSettings, isSettingsOpen, alerts, loads, localStorage,
                   call, ret, track>>

loop(vals) ==
    LET st == Frame(nodes, edges, vals)
    IN /\ Len(inflight) + Len(st.started) <= MaxInflight
       /\ nodes' = IF st.hasChanges THEN st.nodes ELSE nodes
       /\ inflight' = inflight \o st.started
       /\ frameLog' = IF "loop" \in track THEN st.log ELSE <<>>
       /\ returned' = IF "loop" \notin track THEN "none" ELSE IF st.hasChanges THEN "new" ELSE "same"
       /\ heldHigh' = IF "loop" \in track THEN HeldAfter(heldHigh, st.log, 1) ELSE heldHigh
       /\ IF "frames" \in track
          THEN /\ Len(hist) < MaxFrames
               /\ hist' = Append(hist, [log |-> st.log,
                                        busy |-> {a \in Ids : Flag(Cfg(nodes[a]), "isFetching")}])
          ELSE UNCHANGED hist
       /\ Flow("loop", NoId)

\* the callbacks of a fetch the frame loop issued
FetchOutcomes(via) == IF via = "fetch" THEN {"data", "error"} ELSE IF via = "timeout" THEN {"timeout"} ELSE {}

Data == 70          \* the parsed body of a response

Completed(n, outcome) ==
    IF outcome = "data"
    THEN Spread(n, [value |-> Data, config |-> Spread(Cfg(n), [isFetching |-> FALSE, lastData |-> Data])])
    ELSE IF outcome = "error"
    THEN Spread(n, [config |-> Spread(Cfg(n), [isFetching |-> FALSE, lastError |-> "Failed"])])
    ELSE Spread(n, [config |-> Spread(Cfg(n), [isFetching |-> FALSE])])

\* the completion writes its node back whether or not it is still there
ApplyCompletionUpsert(ns, id, outcome) ==
    [k \in DOMAIN ns \cup {id} |->
        IF k = id THEN Completed(IF k \in DOMAIN ns THEN ns[k] ELSE [type |-> "api", parentId |-> NoId], outcome)
        ELSE ns[k]]

\* setNodes(prev => prev.map(n => n.id === target.id ? {...} : n))
ApplyCompletion(ns, id, outcome) ==
    [k \in DOMAIN ns |-> IF k = id THEN Completed(ns[k], outcome) ELSE ns[k]]

FetchDone(i, outcome) ==
    /\ outcome \in FetchOutcomes(inflight[i].via)
    /\ nodes' = ApplyCompletion(nodes, inflight[i].id, outcome)
    /\ inflight' = RemoveAt(inflight, i)
    /\ frameLog' = <<>>
    /\ returned' = "none"
    /\ UNCHANGED <<heldHigh, hist>>
    /\ Flow("FetchDone", inflight[i].id)

\* App.updateNodeConfig
updateNodeConfig(ns, id, config) ==
    [k \in DOMAIN ns |-> IF k = id THEN Spread(ns[k], [config |-> Spread(Cfg(ns[k]), config)]) ELSE ns[k]]

\* NodeItem.handleUrlChange
handleUrlChange(id, url) ==
    /\ nodes' = updateNodeConfig(nodes, id, Spread(Cfg(nodes[id]), [url |-> url]))
    /\ frameLog' = <<>>
    /\ returned' = "none"
    /\ UNCHANGED <<inflight, heldHigh, hist>>
    /\ Flow("handleUrlChange", id)

\* NodeItem.handleFetch up to its await: the closure keeps the node it was rendered with
handleFetch(id) ==
    LET node == nodes[id]
    IN /\ UrlSet(Cfg(node))
       /\ Len(inflight) < MaxInflight
       /\ nodes' = updateNodeConfig(nodes, id, Spread(Cfg(node), [isFetching |-> TRUE, lastError |-> "null"]))
       /\ inflight' = Append(inflight, [id |-> id, via |-> "manual", config |-> Cfg(node)])
       /\ frameLog' = <<>>
       /\ returned' = "none"
       /\ UNCHANGED <<heldHigh, hist>>
       /\ Flow("handleFetch", id)

\* the config handleFetch passes to onConfigChange after its await
ManualResult(config, outcome) ==
    IF outcome = "data"
    THEN Spread(config, [lastData |-> Data, isFetching |-> FALSE, value |-> Data])
    ELSE Spread(config, [lastError |-> "Fetch failed", isFetching |-> FALSE])

\* NodeItem.handleFetch after its await
ManualFetchDone(i, outcome) ==
    /\ inflight[i].via = "manual"
    /\ nodes' = updateNodeConfig(nodes, inflight[i].id, ManualResult(inflight[i].config, outcome))
    /\ inflight' = RemoveAt(inflight, i)
    /\ frameLog' = <<>>
    /\ returned' = "none"
    /\ UNCHANGED <<heldHigh, hist>>
    /\ Flow("ManualFetchDone", inflight[i].id)


\* ----------------------------------------------- propagation: Init and Next
\* The graphs the engine runs on: three nodes as addTask creates them, at the
\* root, with the types of one of these layouts, and any edges between them.
FlowLayouts ==
    {<<"timer", "timer", "api">>, <<"timer", "api", "display">>, <<"oscillator", "display">>,
     <<"timer", "display", "display">>}

\* the edges the loop acts on: between two nodes, into a display or an Api node
Pairs(ns) ==
    {e \in [source : DOMAIN ns, target : DOMAIN ns] :
        e.source # e.target /\ ns[e.target].type \in {"display", "api"}}

\* arrays of at most n distinct edges
EdgeArrays(ns, n) ==
    UNION {{es \in [1..k -> Pairs(ns)] : \A i, j \in 1..k : es[i] = es[j] => i = j} : k \in 0..n}

Urls == {"", "u1"}

InitFlow ==
    /\ \E layout \in FlowLayouts : nodes = [id \in DOMAIN layout |-> NewNode(layout[id], NoId)]
    /\ edges \in EdgeArrays(nodes, MaxFlowEdges)
    /\ selectedNodeIds = {}
    /\ currentScopeId = NoId
    /\ connectionState = NoConnection
    /\ processingId = NoId
    /\ calls = <<>>
    /\ nextId = Cardinality(DOMAIN nodes) + 1
    /\ NoFlow
    /\ NoPage
    /\ NoCall
    /\ NoHistory({"loop", "FetchDone", "ManualFetchDone"})

ApiNodes == {id \in visibleNodes : nodes[id].type = "api"}

NextFlow ==
    \/ \E vals \in FrameInputs(nodes) : loop(vals)
    \/ \E i \in DOMAIN inflight, outcome \in {"data", "error", "timeout"} : FetchDone(i, outcome)
    \/ \E id \in ApiNodes, url \in Urls : handleUrlChange(id, url)
    \/ \E id \in ApiNodes : ~Flag(Cfg(nodes[id]), "isFetching") /\ handleFetch(id)
    \/ \E i \in DOMAIN inflight, outcome \in {"data", "error"} : ManualFetchDone(i, outcome)
    \/ \E id \in visibleNodes : deleteNode(id)

SpecFlow == InitFlow /\ [][NextFlow]_vars


\* One timer feeding one Api node, and the history of every frame.
InitEdge ==
    /\ nodes = [id \in {1, 2} |-> NewNode(IF id = 1 THEN "timer" ELSE "api", NoId)]
    /\ edges = <<[source |-> 1, target |-> 2]>>
    /\ selectedNodeIds = {}
    /\ currentScopeId = NoId
    /\ connectionState = NoConnection
    /\ processingId = NoId
    /\ calls = <<>>
    /\ nextId = 3
    /\ NoFlow
    /\ NoPage
    /\ NoCall
    /\ NoHistory({"frames"})

NextEdge ==
    \/ \E vals \in FrameInputs(nodes) : loop(vals)
    \/ \E i \in DOMAIN inflight, outcome \in {"data", "error", "timeout"} : FetchDone(i, outcome)
    \/ \E id \in ApiNodes, url \in Urls : handleUrlChange(id, url)

SpecEdge == InitEdge /\ [][NextEdge]_vars


\* ------------------------------------------- traversal and layout on graphs
GraphIds == {1, 2, 3}

\* arrays of at most n edges, self-loops and duplicates included
AnyEdgeArrays(S, n) == UNION {[1..k -> [source : S, target : S]] : k \in 0..n}

\* the breadth-first loop of handleAutoAlign; queue holds {id, depth}
RECURSIVE AlignLoop(_, _, _, _)
AlignLoop(queue, visited, depthMap, relevantEdges) ==
    IF queue = <<>> THEN depthMap
    ELSE LET id == Head(queue).id
             depth == Head(queue).depth
         IN IF id \in visited THEN AlignLoop(Tail(queue), visited, depthMap, relevantEdges)
            ELSE LET set == IF ~Has(depthMap, id) \/ depth > depthMap[id]
                            THEN Spread(depthMap, id :> depth) ELSE depthMap
                     children == SelectSeq(relevantEdges, LAMBDA e : e.source = id)
                     pushed == [i \in 1..Len(children) |-> [id |-> children[i].target, depth |-> depth + 1]]
                 IN AlignLoop(Tail(queue) \o pushed, visited \cup {id}, set, relevantEdges)

\* targetNodeIds of handleAutoAlign, as a set
AlignTargetIds == IF selectedNodeIds # {} THEN selectedNodeIds ELSE visibleNodes

\* relevantEdges of handleAutoAlign
AlignRelevantEdges ==
    SelectSeq(edges, LAMBDA e : e.source \in AlignTargetIds /\ e.target \in AlignTargetIds)

\* depthMap of handleAutoAlign, once the unreached nodes are given depth 0
AlignDepthMap ==
    LET targetNodes == SetToSeq(AlignTargetIds \cap Ids)
        relevantEdges == AlignRelevantEdges
        inDegree(n) == Cardinality({i \in DOMAIN relevantEdges : relevantEdges[i].target = n})
        zero == SelectSeq(targetNodes, LAMBDA n : inDegree(n) = 0)
        roots == IF zero = <<>> /\ targetNodes # <<>> THEN <<targetNodes[1]>> ELSE zero
        queue == [i \in 1..Len(roots) |-> [id |-> roots[i], depth |-> 0]]
        reached == AlignLoop(queue, {}, EmptyObject, relevantEdges)
    IN [n \in DOMAIN reached \cup Range(targetNodes) |-> IF Has(reached, n) THEN reached[n] ELSE 0]

\* the ids in the order the breadth-first loop first sets their depth
RECURSIVE AlignOrderLoop(_, _, _, _)
AlignOrderLoop(queue, visited, order, relevantEdges) ==
    IF queue = <<>> THEN order
    ELSE LET id == Head(queue).id
         IN IF id \in visited THEN AlignOrderLoop(Tail(queue), visited, order, relevantEdges)
            ELSE LET children == SelectSeq(relevantEdges, LAMBDA e : e.source = id)
                     pushed == [i \in 1..Len(children) |-> [id |-> children[i].target, depth |-> 0]]
                 IN AlignOrderLoop(Tail(queue) \o pushed, visited \cup {id}, Append(order, id), relevantEdges)

\* the keys of depthMap in insertion order: the reached ids, then the rest of
\* targetNodes
AlignKeys ==
    LET targetNodes == SetToSeq(AlignTargetIds \cap Ids)
        relevantEdges == AlignRelevantEdges
        inDegree(n) == Cardinality({i \in DOMAIN relevantEdges : relevantEdges[i].target = n})
        zero == SelectSeq(targetNodes, LAMBDA n : inDegree(n) = 0)
        roots == IF zero = <<>> /\ targetNodes # <<>> THEN <<targetNodes[1]>> ELSE zero
        queue == [i \in 1..Len(roots) |-> [id |-> roots[i], depth |-> 0]]
        reached == AlignOrderLoop(queue, {}, <<>>, relevantEdges)
    IN reached \o SelectSeq(targetNodes, LAMBDA n : n \notin Range(reached))

HORIZONTAL_SPACING == 300
VERTICAL_SPACING == 200

\* every id is put at the start of its level
AlignIndexFirst(keys, depthMap, id) == 0

\* the index of id in the level it is pushed to
AlignIndex(keys, depthMap, id) ==
    LET level == SelectSeq(keys, LAMBDA k : depthMap[k] = depthMap[id])
    IN (CHOOSE i \in DOMAIN level : level[i] = id) - 1

\* updates of handleAutoAlign, each position as its offset from (avgX, avgY)
AlignUpdates ==
    LET depthMap == AlignDepthMap
        keys == AlignKeys
        maxDepth == IF DOMAIN depthMap = {} THEN 0
                    ELSE CHOOSE d \in Range(depthMap) : \A e \in Range(depthMap) : e <= d
        totalHeight == (maxDepth + 1) * VERTICAL_SPACING
        levelWidth(d) == Cardinality({k \in DOMAIN depthMap : depthMap[k] = d}) * HORIZONTAL_SPACING
    IN [id \in DOMAIN depthMap |->
          [x |-> AlignIndex(keys, depthMap, id) * HORIZONTAL_SPACING - levelWidth(depthMap[id]) \div 2,
           y |-> depthMap[id] * VERTICAL_SPACING - totalHeight \div 2]]

\* handleAutoAlign; the positions it writes are kept in call, as offsets from
\* the centre of the group
handleAutoAlign ==
    /\ AlignTargetIds # {}
    /\ call' = [fn |-> "handleAutoAlign", targets |-> AlignTargetIds, updates |-> AlignUpdates]
    /\ ret' = AlignDepthMap
    /\ UNCHANGED <<nodes, edges, selectedNodeIds, currentScopeId, connectionState, processingId,
                   calls, nextId, inflight, viewport, lang, cloudSettings, isSettingsOpen, alerts, loads, localStorage,
                   track, lastOp, frameLog, returned, heldHigh, hist>>

\* getDownstreamNodes(startIds, new Set()) on the edges
CallDownstream(startIds) ==
    /\ call' = [fn |-> "getDownstreamNodes", start |-> Range(startIds)]
    /\ ret' = getDownstreamNodes(startIds, {})
    /\ UNCHANGED <<nodes, edges, selectedNodeIds, currentScopeId, connectionState, processingId,
                   calls, nextId, inflight, viewport, lang, cloudSettings, isSettingsOpen, alerts, loads, localStorage,
                   track, lastOp, frameLog, returned, heldHigh, hist>>

\* getDownstreamNodes(Array.from(result), new Set()) on the result of the call before
CallDownstreamAgain(startIds) ==
    /\ call.fn = "getDownstreamNodes"
    /\ Range(startIds) = ret
    /\ call' = [fn |-> "again", start |-> call.start, first |-> ret]
    /\ ret' = getDownstreamNodes(startIds, {})
    /\ UNCHANGED <<nodes, edges, selectedNodeIds, currentScopeId, connectionState, processingId,
                   calls, nextId, inflight, viewport, lang, cloudSettings, isSettingsOpen, alerts, loads, localStorage,
                   track, lastOp, frameLog, returned, heldHigh, hist>>

InitGraph(selections, edgeArrays) ==
    /\ nodes = [id \in GraphIds |-> NewTask(NoId)]
    /\ edges \in edgeArrays
    /\ selectedNodeIds \in selections
    /\ currentScopeId = NoId
    /\ connectionState = NoConnection
    /\ processingId = NoId
    /\ calls = <<>>
    /\ nextId = 4
    /\ NoFlow
    /\ NoPage
    /\ NoCall
    /\ NoHistory({})

InitPure == InitGraph({{}}, AnyEdgeArrays(GraphIds, MaxGraphEdges))

NextPure ==
    \/ \E S \in SUBSET Ids : \E startIds \in Orders(S) : CallDownstream(startIds)
    \/ \E startIds \in Orders(ret) : CallDownstreamAgain(startIds)

SpecPure == InitPure /\ [][NextPure]_vars

InitAlign == InitGraph(SUBSET GraphIds, AnyEdgeArrays(GraphIds, MaxGraphEdges))

NextAlign == handleAutoAlign

SpecAlign == InitAlign /\ [][NextAlign]_vars

\* node trees: every node's parent is the root or a node with a smaller id
InitTree ==
    /\ nodes \in {ns \in [GraphIds -> {NewTask(parent) : parent \in {NoId} \cup GraphIds}] :
                    \A id \in GraphIds : ns[id].parentId < id}
    /\ edges \in AnyEdgeArrays(GraphIds, MaxTreeEdges)
    /\ selectedNodeIds = {}
    /\ currentScopeId = NoId
    /\ connectionState = NoConnection
    /\ processingId = NoId
    /\ calls = <<>>
    /\ nextId = 4
    /\ NoFlow
    /\ NoPage
    /\ NoCall
    /\ NoHistory({"deleteNode", "before"})

NextTree ==
    \/ \E id \in visibleNodes : deleteNode(id)
    \/ \E id \in visibleNodes : handleEnterNode(id)
    \/ \E targetId \in {NoId} \cup Range(breadcrumbs) : handleNavigateUp(targetId)

SpecTree == InitTree /\ [][NextTree]_vars

\* selection on arbitrary graphs and selections
InitSelect ==
    /\ nodes = [id \in GraphIds |-> NewTask(NoId)]
    /\ edges \in AnyEdgeArrays(GraphIds, MaxGraphEdges)
    /\ selectedNodeIds \in SUBSET GraphIds
    /\ currentScopeId = NoId
    /\ connectionState = NoConnection
    /\ processingId = NoId
    /\ calls = <<>>
    /\ nextId = 4
    /\ NoFlow
    /\ NoPage
    /\ NoCall
    /\ NoHistory({"handleNodeClick"})

NextSelect ==
    \/ \E id \in visibleNodes, key \in {"none", "ctrl", "alt"} : handleNodeClick(id, key)
    \/ \E id \in {selectedNodeData} \ {NoId} : selectDownstreamFromNode(id)
    \/ handleMouseDown

SpecSelect == InitSelect /\ [][NextSelect]_vars

\* the breakdowns of two root tasks, with whatever breakDownTask resolves to
\* indices into the subtasks, MaxSubtasks always out of range
DepIndices == 0..MaxSubtasks

AnyBreakdownResults ==
    [subtasks : 0..MaxSubtasks,
     dependencies : UNION {[1..n -> [fromIndex : DepIndices, toIndex : DepIndices]] : n \in 0..MaxBreakdownDeps}]

InitBreakdown ==
    /\ nodes = [id \in {1, 2} |-> NewTask(NoId)]
    /\ edges = <<>>
    /\ selectedNodeIds = {}
    /\ currentScopeId = NoId
    /\ connectionState = NoConnection
    /\ processingId = NoId
    /\ calls = <<>>
    /\ nextId = 3
    /\ NoFlow
    /\ NoPage
    /\ NoCall
    /\ NoHistory({})

NextBreakdown ==
    \/ \E id \in visibleNodes :
         /\ nodes[id].type = "task" /\ processingId # id /\ Len(calls) < MaxBreakdownCalls
         /\ handleVerticalBreakdown(id)
    \/ \E id \in visibleNodes :
         /\ nodes[id].type = "task" /\ processingId # id /\ Len(calls) < MaxBreakdownCalls
         /\ handleHorizontalBreakdown(id)
    \/ \E i \in DOMAIN calls, result \in AnyBreakdownResults :
         VerticalBreakdownDone(i, result) /\ nextId' <= MaxBreakdownId + 1
    \* the horizontal breakdown does not read the dependencies
    \/ \E i \in DOMAIN calls, result \in {r \in AnyBreakdownResults : r.dependencies = <<>>} :
         HorizontalBreakdownDone(i, result) /\ nextId' <= MaxBreakdownId + 1
    \/ \E targetId \in {NoId} \cup Range(breadcrumbs) : handleNavigateUp(targetId)

SpecBreakdown == InitBreakdown /\ [][NextBreakdown]_vars

\* the connection gesture on two root tasks
InitConnect ==
    /\ nodes = [id \in {1, 2} |-> NewTask(NoId)]
    /\ edges \in AnyEdgeArrays({1, 2}, MaxConnectEdges)
    /\ selectedNodeIds = {}
    /\ currentScopeId = NoId
    /\ connectionState = NoConnection
    /\ processingId = NoId
    /\ calls = <<>>
    /\ nextId = 3
    /\ NoFlow
    /\ NoPage
    /\ NoCall
    /\ NoHistory({"handleConnectEnd", "before"})

NextConnect ==
    \/ \E id \in visibleNodes, type \in PortTypes : handleConnectStart(id, type)
    \/ \E id \in visibleNodes, type \in PortTypes : handleConnectEnd(id, type)
    \/ handleMouseUp

SpecConnect == InitConnect /\ [][NextConnect]_vars

\* ------------------------------------------------------- claims: the editor
\* C1: in every reachable state every edge's source and target are ids of nodes
\* currently in the node collection.
C1_EdgesReferenceNodes ==
    \A i \in DOMAIN edges : edges[i].source \in Ids /\ edges[i].target \in Ids

\* C3: in every reachable state currentScopeId is null (root) or the id of a
\* node currently in the node collection.
C3_ScopeIsRootOrNode == currentScopeId = NoId \/ currentScopeId \in Ids

\* ------------------------------------------- claims: the propagation engine
\* The edge-detection pattern of C4 over the frames k .. k+4 of the history:
\* the signal the Api node saw was low, high, high, low, high.
Pattern == <<FALSE, TRUE, TRUE, FALSE, TRUE>>

Seen(k) == \A j \in 1..5 : Len(hist[k + j - 1].log) = 1 /\ hist[k + j - 1].log[1].high = Pattern[j]

Windows == {k \in 1..Len(hist) : k + 4 <= Len(hist) /\ Seen(k)}

\* the frame started a fetch of the Api node
Started(f) == \E i \in DOMAIN hist[f].log : hist[f].log[i].fetch

FetchesIn(k) == Cardinality({f \in k..(k + 4) : Started(f)})

\* the Api node was mid-fetch when the frame began
Busy(f) == hist[f].busy # {}

\* C4 as stated: over five consecutive frames in which the single source of an
\* Api node is low, high, high, low, high, exactly two fetch cycles are
\* initiated, whenever the first fetch completes.
C4_ExactlyTwoFetches == \A k \in Windows : FetchesIn(k) = 2

\* C4 amended: over those five frames a fetch cycle is initiated on the second
\* and on the fifth frame only, and on each of them exactly when the Api node
\* is not mid-fetch at that frame; so two cycles are initiated when the node is
\* idle at the second frame and that fetch has completed before the fifth, and
\* a transition that arrives mid-fetch initiates none.
C4_TwoUnlessMidFetch ==
    \A k \in Windows :
        /\ ~Started(k) /\ ~Started(k + 2) /\ ~Started(k + 3)
        /\ Started(k + 1) <=> ~Busy(k + 1)
        /\ Started(k + 4) <=> ~Busy(k + 4)

\* the five frames were seen, the first fetch completed in between, two fetches started
C4_Witness == \E k \in Windows : FetchesIn(k) = 2 /\ ~Busy(k + 4)

\* C5: once a frame has initiated a fetch of an Api node on a source's signal
\* above 0.5, no later frame initiates another fetch of that node on that
\* signal until some frame has seen the signal at or below 0.5, whatever the
\* number and the order of the edges into the node.
C5_NoFetchWhileHeldHigh ==
    [][\A i \in DOMAIN frameLog' :
         frameLog'[i].fetch => <<frameLog'[i].source, frameLog'[i].target>> \notin heldHigh]_vars

IsCompletion(op) == op.op \in {"FetchDone", "ManualFetchDone"}

ResultKeys == {"isFetching", "lastData", "lastError"}

\* node `new` differs from `old` in its fetch-result fields at most
OnlyResultFields(old, new) ==
    /\ \A f \in (DOMAIN old \cup DOMAIN new) \ {"value", "config"} :
         f \in DOMAIN old /\ f \in DOMAIN new /\ old[f] = new[f]
    /\ \A key \in (DOMAIN Cfg(old) \cup DOMAIN Cfg(new)) \ ResultKeys :
         key \in DOMAIN Cfg(old) /\ key \in DOMAIN Cfg(new) /\ Cfg(old)[key] = Cfg(new)[key]

\* C6: a fetch completion, of a fetch the frame loop or the fetch button issued,
\* changes only its node's value, config.isFetching, config.lastData and
\* config.lastError; every other node, field and config key keeps the value it
\* has when the completion arrives.
C6_CompletionMergesAtCompletionTime ==
    [][IsCompletion(lastOp') /\ nodes' # nodes =>
         /\ DOMAIN nodes' = DOMAIN nodes
         /\ \A id \in DOMAIN nodes :
              IF id = lastOp'.id THEN OnlyResultFields(nodes[id], nodes'[id])
              ELSE nodes'[id] = nodes[id]]_vars

\* C7: the completion of a fetch whose Api node was deleted while it was in
\* flight leaves the node collection as it is: the node is not re-created and
\* no other node is modified.
C7_CompletionForDeletedNodeDropped ==
    [][IsCompletion(lastOp') /\ lastOp'.id \notin DOMAIN nodes /\ inflight' # inflight => nodes' = nodes]_vars

\* a completion has just run for a node that is gone, while other nodes remain
C7_Witness == IsCompletion(lastOp) /\ lastOp.id \notin Ids /\ Ids # {}

\* --------------------------------------------- claims: deleteNode, traversal
\* an edge of the array before the step touches node n
Touched(n) == \E i \in DOMAIN hist[1].edges : hist[1].edges[i].source = n \/ hist[1].edges[i].target = n

\* C2: after deleteNode(n), n is no longer in the node collection and no edge
\* has n as its source or as its target.
C2_DeleteRemovesNodeAndItsEdges ==
    lastOp.op = "deleteNode" =>
        /\ lastOp.id \notin Ids
        /\ \A i \in DOMAIN edges : edges[i].source # lastOp.id /\ edges[i].target # lastOp.id

\* deleteNode(n) has run on a node that had an edge in and an edge out, and
\* other nodes remain
C2_Witness ==
    /\ lastOp.op = "deleteNode"
    /\ lastOp.id \in hist[1].ids
    /\ \E i, j \in DOMAIN hist[1].edges :
          hist[1].edges[i].source = lastOp.id /\ hist[1].edges[j].target = lastOp.id
    /\ Ids # {}

\* the ids reachable from S along zero or more edges, as a least fixed point
RECURSIVE Reachable(_, _)
Reachable(S, es) ==
    LET more == S \cup {es[i].target : i \in {j \in DOMAIN es : es[j].source \in S}}
    IN IF more = S THEN S ELSE Reachable(more, es)

Acyclic(es) == \A i \in DOMAIN es : es[i].source \notin Reachable({es[i].target}, es)

\* C8: when the relevant subgraph of handleAutoAlign is acyclic, every relevant
\* edge u -> v has depth(v) >= depth(u) + 1.
C8_DepthGrowsAlongEdges ==
    call.fn = "handleAutoAlign" /\ Acyclic(AlignRelevantEdges) =>
        \A i \in DOMAIN AlignRelevantEdges :
            ret[AlignRelevantEdges[i].target] >= ret[AlignRelevantEdges[i].source] + 1

\* C9: getDownstreamNodes called with an empty seed returns the start ids and
\* every node reachable from them along zero or more edges, and nothing else;
\* on the cycle A -> B -> C -> A started from A it returns {A, B, C}.
C9_DownstreamIsReflexiveTransitiveClosure ==
    call.fn = "getDownstreamNodes" => ret = Reachable(call.start, edges)

\* the call on the three-cycle, started from one of its nodes, returned all three
C9_Witness ==
    /\ call.fn = "getDownstreamNodes"
    /\ edges = <<[source |-> 1, target |-> 2], [source |-> 2, target |-> 3], [source |-> 3, target |-> 1]>>
    /\ call.start = {1}
    /\ ret = {1, 2, 3}

\* C10: applying getDownstreamNodes, with an empty seed, to the result of
\* getDownstreamNodes returns that result.
C10_DownstreamIdempotent == call.fn = "again" => ret = call.first

\* the second application ran on a result that had gained nodes over its start ids
C10_Witness ==
    call.fn = "again" /\ Cardinality(call.start) = 1 /\ Cardinality(call.first) = 3 /\ ret = call.first

\* ------------------------------------------------------- claims: selection
\* C11: alt-clicking node n with the selection Sel sets the selection to the
\* nodes reachable from n along zero or more edges, united with Sel, also when
\* a node of Sel lies on a path from n.
C11_AltClickSelectsClosureAndSelection ==
    [][\A n \in Ids : handleNodeClick(n, "alt") =>
          selectedNodeIds' = Reachable({n}, edges) \cup selectedNodeIds]_vars

\* C12: clicking node n with no modifier key sets the selection to {n},
\* whatever the selection was, also when it held several nodes and n among them.
C12_PlainClickSelectsOnlyThatNode ==
    [][\A n \in Ids : handleNodeClick(n, "none") => selectedNodeIds' = {n}]_vars

\* ------------------------------------------------- claims: edges, breakdown
\* C13: in every reachable state no edge has its source as its target,
\* whichever operation created it, the dependency edges of a breakdown result
\* with arbitrary fromIndex and toIndex included.
C13_NoSelfLoop == \A i \in DOMAIN edges : edges[i].source # edges[i].target

\* C14: in every reachable state no two edges have the same source and the same
\* target, whichever operation added them, the edges of a breakdown with an
\* arbitrary dependency list included.
C14_NoParallelEdges ==
    \A i, j \in DOMAIN edges :
        edges[i].source = edges[j].source /\ edges[i].target = edges[j].target => i = j

\* C19: at any time at most one breakdown call is outstanding for a node, even
\* if a breakdown is started on another node in between.
C19_OneCallPerNode ==
    \A i, j \in DOMAIN calls : calls[i].node.id = calls[j].node.id => i = j

\* ------------------------------------------------ claims: connection gesture
\* C15: a pointer-up on port p of node t during a gesture anchored at port q of
\* node s adds an edge only if s # t and the ports are complementary, and then
\* the edge runs from the node of the source port to the node of the target
\* port; nothing else is added, no node either, and the gesture is over.
C15_ConnectEndAddsNormalisedEdgeOrNothing ==
    [][\A t \in Ids, p \in PortTypes :
          connectionState.isConnecting /\ handleConnectEnd(t, p) =>
              LET s == connectionState.startNodeId
                  q == connectionState.startType
                  from == IF q = "source" THEN s ELSE t
                  to == IF q = "source" THEN t ELSE s
              IN /\ nodes' = nodes
                 /\ ~connectionState'.isConnecting
                 /\ \/ edges' = edges
                    \/ s # t /\ q # p /\ edges' = Append(edges, [source |-> from, target |-> to])]_vars

\* a gesture anchored at a target port has ended on another node's source port,
\* and the edge added runs into the anchor
C15_Witness ==
    /\ lastOp.op = "handleConnectEnd"
    /\ hist[1].connection.isConnecting
    /\ hist[1].connection.startType = "target"
    /\ Len(edges) = Len(hist[1].edges) + 1
    /\ edges[Len(edges)] = [source |-> lastOp.id, target |-> hist[1].connection.startNodeId]

\* C16: the anchor of a connection gesture is set only out of Idle: a
\* pointer-down on a port while a gesture is in progress does not replace it.
C16_AnchorSetOnlyFromIdle ==
    [][connectionState.isConnecting /\ connectionState'.isConnecting =>
          /\ connectionState'.startNodeId = connectionState.startNodeId
          /\ connectionState'.startType = connectionState.startType]_vars

\* ------------------------------------------------------ claims: frame output
\* the edges that feed node d
Feeding(d) == {i \in DOMAIN edges : edges[i].target = d}

\* C17: once a frame has committed, every Display node fed by exactly one edge
\* holds its source's committed value, whatever the order of the edge array and
\* also when the source is itself a Display node fed by a producer.
C17_DisplayMirrorsSourceInSameFrame ==
    lastOp.op = "loop" =>
        \A d \in Ids : nodes[d].type = "display" /\ Cardinality(Feeding(d)) = 1 =>
            \A i \in Feeding(d) :
                LET s == edges[i].source
                IN s \in Ids /\ Has(nodes[s], "value") =>
                       Has(nodes[d], "value") /\ nodes[d].value = nodes[s].value

\* nothing for a frame to do on ns and es when the producers' formulas yield vals
Quiet(ns, es, vals) ==
    /\ \A id \in DOMAIN ns :
          /\ ns[id].type = "oscillator" =>
                Abs((IF Has(ns[id], "value") THEN ns[id].value ELSE 0) - vals[id]) <= Epsilon
          /\ ns[id].type = "timer" => Has(ns[id], "value") /\ ns[id].value = vals[id]
    /\ \A i \in DOMAIN es :
          LET s == es[i].source
              t == es[i].target
          IN s \in DOMAIN ns /\ t \in DOMAIN ns /\ Has(ns[s], "value") =>
                /\ ns[t].type = "display" => Has(ns[t], "value") /\ ns[t].value = ns[s].value
                /\ ns[t].type = "api" =>
                      /\ Has(Cfg(ns[t]), "lastSignalWasHigh")
                      /\ Cfg(ns[t]).lastSignalWasHigh = (ns[s].value > Threshold)

\* C18: a frame returns the very collection it was given, with no field
\* changed, exactly when no oscillator moved by more than 0.01, no timer value
\* changed, no Display target differs from its source and no Api target changes
\* its flags; otherwise it returns a new collection.
C18_FrameReusesCollectionIffQuiet ==
    [][\A vals \in FrameInputs(nodes) :
          loop(vals) => /\ returned' \in {"same", "new"}
                        /\ returned' = "same" <=> Quiet(nodes, edges, vals)
                        /\ returned' = "same" => nodes' = nodes]_vars

\* a frame has reused the collection although a Display and an Api node are fed
C18_Witness ==
    /\ lastOp.op = "loop"
    /\ returned = "same"
    /\ \E i, j \in DOMAIN edges :
          /\ nodes[edges[i].target].type = "display" /\ Has(nodes[edges[i].target], "value")
          /\ nodes[edges[j].target].type = "api" /\ Has(nodes[edges[j].source], "value")

\* -------------------------------------------------------------------- import
\* A JSON value is [kind |-> "null"], [kind |-> "number", n |-> ..],
\* [kind |-> "array", items |-> ..] or [kind |-> "object", fields |-> ..]; the
\* items of a nodes array are kept as the id -> node map the model uses.
JsonNull == [kind |-> "null"]

JsonNumber(n) == [kind |-> "number", n |-> n]

JsonArray(items) == [kind |-> "array", items |-> items]

JsonObject(fields) == [kind |-> "object", fields |-> fields]

PannedViewport == [x |-> 40, y |-> -20, scale |-> 2 * One]

SupabaseSettings == [provider |-> "supabase", slotId |-> "default"]

\* the texts of the files a user picks
Files ==
    {"{", "", "null", "1", "{\"foo\": 1}", "{\"nodes\": 1}", "{\"nodes\": {}}", "[]",
     "{\"nodes\": []}", "{\"nodes\": [task 1], \"settings\": {\"lang\": \"en\"}}", "export of 1 -> 2",
     "snapshot with 1 in 2 and 2 in 1", "export of 1 -> 2 without 2"}

\* JSON.parse on those texts: ok is FALSE where it throws
JSONparse(text) ==
    IF text \in {"{", ""} THEN [ok |-> FALSE]
    ELSE [ok |-> TRUE,
          json |->
            IF text = "null" THEN JsonNull
            ELSE IF text = "1" THEN JsonNumber(1)
            ELSE IF text = "{\"foo\": 1}" THEN JsonObject([foo |-> JsonNumber(1)])
            ELSE IF text = "{\"nodes\": 1}" THEN JsonObject([nodes |-> JsonNumber(1)])
            ELSE IF text = "{\"nodes\": {}}" THEN JsonObject([nodes |-> JsonObject(EmptyObject)])
            ELSE IF text = "[]" THEN JsonArray(EmptyObject)
            ELSE IF text = "{\"nodes\": []}" THEN JsonObject([nodes |-> JsonArray(EmptyObject)])
            ELSE IF text = "{\"nodes\": [task 1], \"settings\": {\"lang\": \"en\"}}"
            THEN JsonObject([nodes |-> JsonArray(1 :> NewTask(NoId)),
                             settings |-> [lang |-> "en"]])
            ELSE IF text = "snapshot with 1 in 2 and 2 in 1"
            THEN JsonObject([nodes |-> JsonArray(1 :> NewTask(2) @@ 2 :> NewTask(1)),
                             currentScopeId |-> 1])
            ELSE IF text = "export of 1 -> 2 without 2"
            THEN JsonObject([nodes |-> JsonArray(1 :> NewTask(NoId)),
                             edges |-> <<[source |-> 1, target |-> 2]>>])
            ELSE JsonObject([nodes |-> JsonArray([id \in {1, 2} |-> NewTask(NoId)]),
                             edges |-> <<[source |-> 1, target |-> 2]>>,
                             currentScopeId |-> 1,
                             viewport |-> PannedViewport,
                             settings |-> [lang |-> "ja", cloudSettings |-> SupabaseSettings]])]

\* json && Array.isArray(json.nodes)
HasNodesArray(json) ==
    /\ json.kind \in {"array", "object"} \/ (json.kind = "number" /\ json.n # 0)
    /\ json.kind = "object"
    /\ Has(json.fields, "nodes")
    /\ json.fields.nodes.kind = "array"

\* the rejection also empties the selection
RejectImportClearing(message) ==
    /\ alerts' = Append(alerts, message)
    /\ selectedNodeIds' = {}
    /\ UNCHANGED <<nodes, edges, currentScopeId, viewport, lang, cloudSettings, isSettingsOpen>>

\* alert(message) and nothing else
RejectImport(message) ==
    /\ alerts' = Append(alerts, message)
    /\ UNCHANGED <<nodes, edges, selectedNodeIds, currentScopeId, viewport, lang, cloudSettings,
                   isSettingsOpen>>

\* the setters of the accepting branch
AcceptImport(fields) ==
    /\ nodes' = fields.nodes.items
    /\ edges' = IF Has(fields, "edges") THEN fields.edges ELSE <<>>
    /\ currentScopeId' = IF Has(fields, "currentScopeId") THEN fields.currentScopeId ELSE NoId
    /\ viewport' = IF Has(fields, "viewport") THEN fields.viewport ELSE DefaultViewport
    /\ lang' = IF Has(fields, "settings") /\ Has(fields.settings, "lang") THEN fields.settings.lang ELSE lang
    /\ cloudSettings' = IF Has(fields, "settings") /\ Has(fields.settings, "cloudSettings")
                        THEN fields.settings.cloudSettings ELSE cloudSettings
    /\ selectedNodeIds' = {}
    /\ isSettingsOpen' = FALSE
    /\ UNCHANGED alerts

\* App.handleImport, from reader.onload on
handleImport(text) ==
    LET parsed == JSONparse(text)
    IN /\ IF ~parsed.ok THEN RejectImport("Load failed")
          ELSE IF HasNodesArray(parsed.json) THEN AcceptImport(parsed.json.fields)
          ELSE RejectImport("Invalid file")
       /\ lastOp' = Op("handleImport", NoId)
       /\ frameLog' = <<>>
       /\ returned' = "none"
       /\ UNCHANGED <<connectionState, processingId, calls, nextId, inflight, loads, localStorage,
                      call, ret, track, heldHigh, hist>>

\* the settings modal's language buttons
onLanguageChange(l) ==
    /\ lang' = l
    /\ lastOp' = Op("onLanguageChange", NoId)
    /\ frameLog' = <<>>
    /\ returned' = "none"
    /\ UNCHANGED <<nodes, edges, selectedNodeIds, currentScopeId, connectionState, processingId,
                   calls, nextId, inflight, viewport, cloudSettings, isSettingsOpen, alerts, loads, localStorage,
                   call, ret, track, heldHigh, hist>>

\* Two tasks, edited, panned and configured in any of these ways, with the
\* settings modal open or already closed when the file has been read.
InitImport ==
    /\ nodes = [id \in {1, 2} |-> NewTask(NoId)]
    /\ edges \in {<<>>, <<[source |-> 2, target |-> 1]>>}
    /\ selectedNodeIds \in SUBSET {1, 2}
    /\ currentScopeId \in {NoId, 2}
    /\ connectionState = NoConnection
    /\ processingId = NoId
    /\ calls = <<>>
    /\ nextId = 3
    /\ NoFlow
    /\ viewport \in {DefaultViewport, PannedViewport}
    /\ lang = "ja"
    /\ cloudSettings \in {defaultCloudSettings, SupabaseSettings}
    /\ isSettingsOpen \in BOOLEAN
    /\ alerts = <<>>
    /\ loads = 0
    /\ localStorage = NoItem
    /\ NoCall
    /\ NoHistory({"handleImport"})

NextImport ==
    \/ \E text \in Files : handleImport(text) /\ Len(alerts') <= MaxAlerts
    \/ \E l \in {"ja", "en"} : isSettingsOpen /\ onLanguageChange(l)

SpecImport == InitImport /\ [][NextImport]_vars

\* ------------------------------------------------------------ claims: import
\* the texts that are not valid JSON or whose value has no array-valued nodes
Unimportable == {"{", "", "null", "1", "{\"foo\": 1}", "{\"nodes\": 1}", "{\"nodes\": {}}", "[]"}

\* C20: importing a file that is not valid JSON, or whose content has no
\* array-valued nodes field, leaves nodes, edges, current scope, viewport,
\* selection and settings as they were and shows an error.
C20_RejectedImportChangesNothing ==
    [][\A text \in Unimportable :
          handleImport(text) =>
              /\ UNCHANGED <<nodes, edges, currentScopeId, viewport, selectedNodeIds,
                             lang, cloudSettings, isSettingsOpen>>
              /\ Len(alerts') = Len(alerts) + 1]_vars

\* a file without a nodes array has been rejected on a graph with an edge, a selection, a panned
\* viewport and changed settings
C20_Witness ==
    /\ lastOp.op = "handleImport"
    /\ alerts = <<"Invalid file">>
    /\ edges # <<>> /\ selectedNodeIds = {1, 2} /\ viewport = PannedViewport /\ lang = "en"

\* -------------------------------------------------------------- persistence
\* a JSON value in a condition
Truthy(json) == json.kind \in {"array", "object"} \/ (json.kind = "number" /\ json.n # 0)

\* json.key is not undefined
HasField(json, key) == json.kind = "object" /\ Has(json.fields, key)

\* what JSON.parse gives back for what saveData hands to JSON.stringify
Snapshot ==
    JsonObject([nodes |-> JsonArray(nodes), edges |-> edges,
                currentScopeId |-> currentScopeId, viewport |-> viewport])

\* App.saveData, as the autosave effect and beforeunload call it
saveData ==
    /\ localStorage' = Snapshot
    /\ lastOp' = Op("saveData", NoId)
    /\ UNCHANGED <<nodes, edges, selectedNodeIds, currentScopeId, connectionState, processingId,
                   calls, nextId, inflight, viewport, lang, cloudSettings, isSettingsOpen, alerts,
                   loads, call, ret, track, frameLog, returned, heldHigh, hist>>

\* loadInitialData()
loadInitialData == IF localStorage = NoItem THEN JsonNull ELSE localStorage

\* App.handleManualLoad up to its await, the confirmation given
handleManualLoad ==
    /\ loads' = loads + 1
    /\ lastOp' = Op("handleManualLoad", NoId)
    /\ UNCHANGED <<nodes, edges, selectedNodeIds, currentScopeId, connectionState, processingId,
                   calls, nextId, inflight, viewport, lang, cloudSettings, isSettingsOpen, alerts,
                   localStorage, call, ret, track, frameLog, returned, heldHigh, hist>>

\* what the cloud answers with: nothing usable, or a JSON value whose nodes,
\* where it has any, are an array
Payloads ==
    {JsonNull, JsonNumber(1), JsonObject([foo |-> JsonNumber(1)]),
     JsonObject([nodes |-> JsonArray(EmptyObject)]),
     JsonObject([nodes |-> JsonArray(1 :> NewTask(NoId)), edges |-> <<>>,
                 currentScopeId |-> NoId, viewport |-> DefaultViewport])}

\* App.handleManualLoad after its await; received is null where no provider is
\* configured, the request failed or the answer was empty, and failed tells
\* whether the custom provider's alert was shown for it
ManualLoadDone(received, failed) ==
    LET loadedData == IF Truthy(received) THEN received ELSE loadInitialData
    IN /\ loads > 0
       /\ failed => ~Truthy(received)
       /\ loads' = loads - 1
       /\ alerts' = IF failed THEN Append(alerts, "Load Failed") ELSE alerts
       /\ IF Truthy(loadedData)
          THEN /\ nodes' = IF HasField(loadedData, "nodes") THEN loadedData.fields.nodes.items ELSE EmptyObject
               /\ edges' = IF HasField(loadedData, "edges") THEN loadedData.fields.edges ELSE <<>>
               /\ currentScopeId' = IF HasField(loadedData, "currentScopeId")
                                    THEN loadedData.fields.currentScopeId ELSE NoId
               /\ viewport' = IF HasField(loadedData, "viewport") THEN loadedData.fields.viewport
                              ELSE DefaultViewport
               /\ selectedNodeIds' = {}
          ELSE UNCHANGED <<nodes, edges, currentScopeId, viewport, selectedNodeIds>>
       /\ lastOp' = Op("ManualLoadDone", NoId)
       /\ frameLog' = <<>>
       /\ returned' = "none"
       /\ UNCHANGED <<connectionState, processingId, calls, nextId, inflight, lang, cloudSettings,
                      isSettingsOpen, localStorage, call, ret, track, heldHigh, hist>>

\* Two tasks, edited and panned in any of these ways, nothing saved yet.
InitLoad ==
    /\ nodes = [id \in {1, 2} |-> NewTask(NoId)]
    /\ edges \in {<<>>, <<[source |-> 2, target |-> 1]>>}
    /\ selectedNodeIds \in SUBSET {1, 2}
    /\ currentScopeId \in {NoId, 2}
    /\ connectionState = NoConnection
    /\ processingId = NoId
    /\ calls = <<>>
    /\ nextId = 3
    /\ NoFlow
    /\ viewport \in {DefaultViewport, PannedViewport}
    /\ lang = "ja"
    /\ cloudSettings = defaultCloudSettings
    /\ isSettingsOpen = FALSE
    /\ alerts = <<>>
    /\ loads = 0
    /\ localStorage = NoItem
    /\ NoCall
    /\ NoHistory({"ManualLoadDone"})

NextLoad ==
    \/ saveData
    \/ loads < MaxLoads /\ handleManualLoad
    \/ \E received \in Payloads, failed \in BOOLEAN :
         ManualLoadDone(received, failed) /\ Len(alerts') <= MaxAlerts
    \/ \E id \in visibleNodes : deleteNode(id)

SpecLoad == InitLoad /\ [][NextLoad]_vars

\* ------------------------------------------------------- claims: persistence
\* present values without an array-valued nodes field
MalformedPayloads == {JsonNumber(1), JsonObject([foo |-> JsonNumber(1)])}

\* C21: a confirmed manual load that receives a present value without an
\* array-valued nodes field leaves nodes, edges, scope and viewport as they were.
C21_MalformedLoadChangesNothing ==
    [][\A received \in MalformedPayloads :
          ManualLoadDone(received, FALSE) => UNCHANGED <<nodes, edges, currentScopeId, viewport>>]_vars

\* ------------------------------------------------------- breakdown service
\* { subtasks: [], dependencies: [] }
EmptyResult == [subtasks |-> 0, dependencies |-> <<>>]

\* what ai.models.generateContent does: it throws, or resolves to a response
\* with this text
Responses ==
    {[thrown |-> TRUE, text |-> ""]} \cup
    [thrown : {FALSE},
     text : {"", "not json", "null", "{}", "{\"subtasks\": [a]}",
             "{\"subtasks\": [], \"dependencies\": []}",
             "{\"subtasks\": [a, b], \"dependencies\": [0 -> 1]}"}]

\* JSON.parse on those texts, a subtasks array kept as its length: ok is FALSE
\* where it throws
ParseResult(text) ==
    IF text \in {"", "not json"} THEN [ok |-> FALSE]
    ELSE [ok |-> TRUE,
          json |-> IF text = "null" THEN JsonNull
                   ELSE IF text = "{}" THEN EmptyObject
                   ELSE IF text = "{\"subtasks\": [a]}" THEN [subtasks |-> 1]
                   ELSE IF text = "{\"subtasks\": [], \"dependencies\": []}" THEN EmptyResult
                   ELSE [subtasks |-> 2, dependencies |-> <<[fromIndex |-> 0, toIndex |-> 1]>>]]

\* geminiService.breakDownTask, given whether API_KEY is set and what the
\* service does
breakDownTask(apiKey, response) ==
    IF ~apiKey THEN EmptyResult
    ELSE IF response.thrown THEN EmptyResult
    ELSE IF response.text = "" THEN EmptyResult
    ELSE IF ~ParseResult(response.text).ok THEN EmptyResult
    ELSE ParseResult(response.text).json

\* result.subtasks.length, and for a vertical breakdown with subtasks
\* result.dependencies.forEach, throws a TypeError
Raises(mode, result) ==
    \/ ~Has(result, "subtasks")
    \/ mode = "handleVerticalBreakdown" /\ result.subtasks > 0 /\ ~Has(result, "dependencies")

\* the handler of call i ends in an unhandled rejection before any setter
BreakdownRaised(i) ==
    /\ calls' = RemoveAt(calls, i)
    /\ Editor("BreakdownRaised", calls[i].node.id)
    /\ UNCHANGED <<nodes, edges, selectedNodeIds, currentScopeId, connectionState, processingId, nextId>>

\* the await of call i resolves with what breakDownTask returns
BreakdownReturns(i, apiKey, response) ==
    LET result == breakDownTask(apiKey, response)
    IN IF Raises(calls[i].mode, result) THEN BreakdownRaised(i)
       ELSE IF calls[i].mode = "handleVerticalBreakdown" THEN VerticalBreakdownDone(i, result)
       ELSE HorizontalBreakdownDone(i, result)

NextService ==
    \/ \E id \in visibleNodes :
         /\ nodes[id].type = "task" /\ processingId # id /\ Len(calls) < MaxBreakdownCalls
         /\ handleVerticalBreakdown(id)
    \/ \E id \in visibleNodes :
         /\ nodes[id].type = "task" /\ processingId # id /\ Len(calls) < MaxBreakdownCalls
         /\ handleHorizontalBreakdown(id)
    \/ \E i \in DOMAIN calls, apiKey \in BOOLEAN, response \in Responses :
         BreakdownReturns(i, apiKey, response) /\ nextId' <= MaxBreakdownId + 1
    \/ \E targetId \in {NoId} \cup Range(breadcrumbs) : handleNavigateUp(targetId)

SpecService == InitBreakdown /\ [][NextService]_vars

\* ------------------------------------------------ claims: breakdown service
\* C22: breakDownTask always returns a record with a subtasks list and a
\* dependencies list, the empty one for a missing credential, a thrown service
\* error, an empty or unparseable text and a parsed text that lacks the fields,
\* so the handler that awaited it clears the processing flag.
C22_BreakdownAlwaysClearsProcessing ==
    [][\A i \in DOMAIN calls, apiKey \in BOOLEAN, response \in Responses :
          BreakdownReturns(i, apiKey, response) =>
              /\ Has(breakDownTask(apiKey, response), "subtasks")
              /\ Has(breakDownTask(apiKey, response), "dependencies")
              /\ processingId' = NoId]_vars

\* ---------------------------------------------------------- breadcrumb walk
\* The useMemo of breadcrumbs, one iteration of its while loop per step; call
\* holds curr and the dependencies the memo was computed for, ret holds path.
breadcrumbsStart ==
    /\ call' = [fn |-> "breadcrumbs", curr |-> currentScopeId, done |-> currentScopeId = NoId,
                deps |-> <<currentScopeId, nodes>>]
    /\ ret' = <<>>
    /\ UNCHANGED <<nodes, edges, selectedNodeIds, currentScopeId, connectionState, processingId,
                   calls, nextId, inflight, viewport, lang, cloudSettings, isSettingsOpen, alerts, loads, localStorage,
                   track, lastOp, frameLog, returned, heldHigh, hist>>

breadcrumbsStep ==
    /\ call.fn = "breadcrumbs" /\ ~call.done
    /\ IF call.curr \in Ids
       THEN /\ ret' = <<call.curr>> \o ret
            /\ call' = [call EXCEPT !.curr = nodes[call.curr].parentId,
                                    !.done = nodes[call.curr].parentId = NoId]
       ELSE /\ ret' = ret
            /\ call' = [call EXCEPT !.done = TRUE]
    /\ UNCHANGED <<nodes, edges, selectedNodeIds, currentScopeId, connectionState, processingId,
                   calls, nextId, inflight, viewport, lang, cloudSettings, isSettingsOpen, alerts, loads, localStorage,
                   track, lastOp, frameLog, returned, heldHigh, hist>>

\* the walk is not under way
NoWalk == call.fn = "breadcrumbs" => call.done

\* the page is rendered for the current scope and nodes
Rendered == call.fn = "breadcrumbs" /\ call.done /\ call.deps = <<currentScopeId, nodes>>

\* The page renders and walks the breadcrumbs; between two renders the user
\* enters a node, deletes one or imports a file.
NextWalk ==
    \/ NoWalk /\ ~Rendered /\ breadcrumbsStart
    \/ call.fn = "breadcrumbs" /\ Len(ret) < MaxPath /\ breadcrumbsStep
    \/ \E text \in Files : Rendered /\ handleImport(text) /\ Len(alerts') <= MaxAlerts
    \/ \E id \in visibleNodes : Rendered /\ handleEnterNode(id)
    \/ \E id \in visibleNodes : Rendered /\ deleteNode(id)

SpecWalk == InitImport /\ [][NextWalk]_vars

\* ------------------------------------------------------ claims: breadcrumbs
\* C23: the breadcrumb walk ends for every node collection, one with a cycle
\* of parentId links included.  Each iteration reads only curr and the nodes,
\* so a walk that ends puts every node on the path at most once.
C23_BreadcrumbWalkEnds ==
    call.fn = "breadcrumbs" => Len(ret) <= Cardinality(DOMAIN call.deps[2])

\* ------------------------------------------------- deletes on arbitrary trees
\* The node trees of InitTree, with the clicks that build a selection and both
\* delete operations.
NextDelete ==
    \/ \E id \in visibleNodes : deleteNode(id)
    \/ selectedNodeIds # {} /\ deleteSelectedNodes
    \/ \E id \in visibleNodes, key \in {"none", "ctrl"} : handleNodeClick(id, key)
    \/ \E id \in visibleNodes : handleEnterNode(id)
    \/ \E targetId \in {NoId} \cup Range(breadcrumbs) : handleNavigateUp(targetId)

SpecDelete == InitTree /\ [][NextDelete]_vars

\* -------------------------------------------------------- claims: containment
\* C24: after a delete of either kind no remaining node has a parentId naming
\* a node that is no longer in the collection.
C24_NoOrphanAfterDelete ==
    \A n \in Ids : nodes[n].parentId # NoId => nodes[n].parentId \in Ids

\* the node reached from n after k parentId links, NoId once the chain has left
\* the collection
RECURSIVE Up(_, _)
Up(n, k) ==
    IF k = 0 THEN n
    ELSE LET p == Up(n, k - 1)
         IN IF p \in Ids THEN nodes[p].parentId ELSE NoId

\* C25: in every state the editor's own operations reach, following parentId
\* links from a node never leads back to that node.
C25_ParentLinksAcyclic == \A n \in Ids : \A k \in 1..Cardinality(Ids) : Up(n, k) # n

\* a node sits inside a node that sits inside a third
C25_Witness == \E n \in Ids : Up(n, 1) \in Ids /\ Up(n, 2) \in Ids

\* ------------------------------------------------------ claims: auto-align
\* the target nodes without an incoming relevant edge
AlignRoots ==
    {n \in AlignTargetIds : \A i \in DOMAIN AlignRelevantEdges : AlignRelevantEdges[i].target # n}

\* C26: auto-align ends and gives every node of a non-empty target set exactly
\* one new position, also when no target node is a root and when nodes are not
\* reached from any root (these get depth 0); no two target nodes get the same
\* position.
C26_AlignPlacesEveryTargetOnce ==
    call.fn = "handleAutoAlign" =>
        /\ DOMAIN call.updates = call.targets
        /\ \A a, b \in call.targets : call.updates[a] = call.updates[b] => a = b
        /\ AlignRoots # {} =>
              \A n \in call.targets \ Reachable(AlignRoots, AlignRelevantEdges) : ret[n] = 0

\* three nodes on one cycle have been aligned
C26_Witness ==
    /\ call.fn = "handleAutoAlign"
    /\ call.targets = GraphIds
    /\ AlignRoots = {}
    /\ Cardinality({call.updates[n] : n \in GraphIds}) = 3

\* ------------------------------------------------------------------- reload
\* A reload of the page: the beforeunload handler saves the state, every
\* pending callback dies with the page, and App starts again from
\* loadInitialData() and the saved settings.
reload ==
    LET initialData == Snapshot
    IN /\ localStorage' = initialData
       /\ nodes' = IF HasField(initialData, "nodes") THEN initialData.fields.nodes.items ELSE EmptyObject
       /\ edges' = IF HasField(initialData, "edges") THEN initialData.fields.edges ELSE <<>>
       /\ currentScopeId' = IF HasField(initialData, "currentScopeId")
                            THEN initialData.fields.currentScopeId ELSE NoId
       /\ viewport' = IF HasField(initialData, "viewport") THEN initialData.fields.viewport
                      ELSE DefaultViewport
       /\ selectedNodeIds' = {}
       /\ connectionState' = NoConnection
       /\ processingId' = NoId
       /\ calls' = <<>>
       /\ inflight' = <<>>
       /\ loads' = 0
       /\ isSettingsOpen' = FALSE
       /\ lastOp' = Op("reload", NoId)
       /\ frameLog' = <<>>
       /\ returned' = "none"
       /\ UNCHANGED <<nextId, lang, cloudSettings, alerts, call, ret, track, heldHigh, hist>>

\* a timer feeding an Api node with or without a url
InitReload ==
    /\ \E url \in Urls :
         nodes = (1 :> NewNode("timer", NoId)) @@
                 (2 :> Spread(NewNode("api", NoId), [config |-> Spread(DefaultConfig("api"), [url |-> url])]))
    /\ edges = <<[source |-> 1, target |-> 2]>>
    /\ selectedNodeIds = {}
    /\ currentScopeId = NoId
    /\ connectionState = NoConnection
    /\ processingId = NoId
    /\ calls = <<>>
    /\ nextId = 3
    /\ NoFlow
    /\ NoPage
    /\ NoCall
    /\ NoHistory({})

NextReload ==
    \/ \E vals \in FrameInputs(nodes) : loop(vals)
    \/ \E i \in DOMAIN inflight, outcome \in {"data", "error", "timeout"} : FetchDone(i, outcome)
    \/ \E id \in ApiNodes : ~Flag(Cfg(nodes[id]), "isFetching") /\ handleFetch(id)
    \/ \E i \in DOMAIN inflight, outcome \in {"data", "error"} : ManualFetchDone(i, outcome)
    \/ saveData
    \/ reload

\* frames keep coming, and every fetch or timeout that was issued completes
FairReload ==
    /\ WF_vars(\E vals \in FrameInputs(nodes) : loop(vals))
    /\ \A i \in 1..MaxInflight :
          /\ WF_vars(\E outcome \in {"data", "error", "timeout"} : i \in DOMAIN inflight /\ FetchDone(i, outcome))
          /\ WF_vars(\E outcome \in {"data", "error"} : i \in DOMAIN inflight /\ ManualFetchDone(i, outcome))

SpecReload == InitReload /\ [][NextReload]_vars /\ FairReload

\* ----------------------------------------------------- claims: fetch cycle
Fetching(a) == a \in Ids /\ Flag(Cfg(nodes[a]), "isFetching")

\* C27: an Api node with isFetching set eventually has it cleared, given that
\* every fetch and timeout that was issued completes, also across a save and
\* reload made while the fetch is in flight.
C27_FetchingEventuallyCleared == \A a \in {1, 2} : Fetching(a) ~> ~Fetching(a)

\* The fetch cycle with the autosave and a manual load: with the default cloud
\* settings no provider is configured and the load falls back to the autosave.
NextRestore ==
    \/ \E vals \in FrameInputs(nodes) : loop(vals)
    \/ \E i \in DOMAIN inflight, outcome \in {"data", "error", "timeout"} : FetchDone(i, outcome)
    \/ saveData
    \/ loads < MaxLoads /\ handleManualLoad
    \/ ManualLoadDone(JsonNull, FALSE)

SpecRestore == InitReload /\ [][NextRestore]_vars

\* C28: at most one fetch cycle is in flight for an Api node at any time,
\* whether the frame loop or the node's fetch button started it.
C28_OneFetchInFlightPerNode ==
    \A i, j \in DOMAIN inflight : inflight[i].id = inflight[j].id => i = j

\* ------------------------------------------------------- drop on the canvas
\* Task 1 at the root with task 2 inside it, seen from the root or from inside
\* task 1, and the connection gesture.
InitDrop ==
    /\ nodes = (1 :> NewTask(NoId)) @@ (2 :> NewTask(1))
    /\ edges \in {<<>>, <<[source |-> 1, target |-> 2]>>}
    /\ selectedNodeIds = {}
    /\ currentScopeId \in {NoId, 1}
    /\ connectionState = NoConnection
    /\ processingId = NoId
    /\ calls = <<>>
    /\ nextId = 3
    /\ NoFlow
    /\ NoPage
    /\ NoCall
    /\ NoHistory({"handleMouseUp", "before"})

SpecDrop == InitDrop /\ [][NextConnect]_vars

\* C29: a pointer release on the empty canvas during a connection gesture
\* returns the connection state to Idle; from a source port it adds exactly
\* one task node in the current scope and exactly one edge from the anchor to
\* it, from a target port it adds no node and no edge.
C29_DropAddsOneNodeAndEdgeFromSource ==
    [][connectionState.isConnecting /\ handleMouseUp =>
          /\ ~connectionState'.isConnecting
          /\ connectionState.startType = "source" =>
                \E n \in DOMAIN nodes' \ Ids :
                    /\ DOMAIN nodes' = Ids \cup {n}
                    /\ \A m \in Ids : nodes'[m] = nodes[m]
                    /\ nodes'[n].type = "task" /\ nodes'[n].parentId = currentScopeId
                    /\ edges' = Append(edges, [source |-> connectionState.startNodeId, target |-> n])
          /\ connectionState.startType = "target" => nodes' = nodes /\ edges' = edges]_vars

\* inside task 1, a connection dragged from the source port of task 2 has been
\* dropped on the canvas
C29_Witness ==
    /\ lastOp.op = "handleMouseUp"
    /\ hist[1].connection.isConnecting /\ hist[1].connection.startType = "source"
    /\ currentScopeId = 1
    /\ Cardinality(Ids) = Cardinality(hist[1].ids) + 1
    /\ Len(edges) = Len(hist[1].edges) + 1

\* ------------------------------------------- selection across the operations
\* the files of the import whose nodes have no cycle of parentId links
TreeFiles ==
    {"{\"nodes\": []}", "{\"nodes\": [task 1], \"settings\": {\"lang\": \"en\"}}", "export of 1 -> 2",
     "export of 1 -> 2 without 2"}

\* The clicks, select-downstream, both deletes, the drop of a connection on
\* the canvas, the scope changes and the import, from task 1 with task 2 in it.
NextSelection ==
    \/ \E id \in visibleNodes, key \in {"none", "ctrl", "alt"} : handleNodeClick(id, key)
    \/ \E id \in {selectedNodeData} \ {NoId} : selectDownstreamFromNode(id)
    \/ \E id \in visibleNodes \cup ({selectedNodeData} \ {NoId}) : deleteNode(id)
    \/ selectedNodeIds # {} /\ deleteSelectedNodes
    \/ \E id \in visibleNodes : handleConnectStart(id, "source")
    \/ handleMouseUp
    \/ \E id \in visibleNodes : handleEnterNode(id)
    \/ \E targetId \in {NoId} \cup Range(breadcrumbs) : handleNavigateUp(targetId)
    \/ \E text \in TreeFiles : handleImport(text) /\ Len(alerts') <= MaxAlerts

SpecSelection == InitDrop /\ [][NextSelection]_vars

\* C30: the selection holds only ids of nodes that are in the node collection.
C30_SelectionWithinNodes == selectedNodeIds \subseteq Ids

====
